---- MODULE Spec2Model ----
(***************************************************************************)
(* pipeplayer: raw PCM bytes from stdin are staged into whole frames by    *)
(* the drain loop of main(), pushed into a PortAudio ring buffer, and      *)
(* pulled out of it by streamCallback on the audio thread.                 *)
(*                                                                         *)
(* The model follows src/pipeplayer.cpp.  The ring buffer itself           *)
(* (pa_ringbuffer) is not part of that file; it is modelled from section   *)
(* 4.1 of the specification (cursors are monotone counts, the physical     *)
(* index is count & (capacity - 1), read and write clamp to what is        *)
(* available).                                                             *)
(*                                                                         *)
(* Time: the code keeps two time points, now and then, and only ever looks *)
(* at their difference (lines 396 and 432).  The model keeps that          *)
(* difference, elapsed == now - then, in ticks.                            *)
(*                                                                         *)
(* Logging: the INFO and FATAL events handed to the logging macros are     *)
(* recorded in log; the verbosity gate of the macros is not modelled.      *)
(* FATAL sets result whatever the verbosity (line 280).  The two warnings  *)
(* show in warned and in canGetByte.                                       *)
(***************************************************************************)
EXTENDS Integers, Sequences, FiniteSets, TLC

(* ------------------------------ bounds --------------------------------- *)
MaxFramesPerBuffer == 2   \* options.framesPerBuffer ranges over 1..MaxFramesPerBuffer
MaxSrcLen == 4            \* the source delivers at most MaxSrcLen bytes before it goes quiet or closes
MaxTimeout == 2           \* finite options.timeout ranges over 0..MaxTimeout ticks
MaxRequest == 520         \* the sizing scenario asks for 1..MaxRequest frames per buffer

(* ------------------------- program constants --------------------------- *)
Infinity == 1000          \* std::numeric_limits<double>::infinity(), the default timeout
SleepTime == 2            \* sleepTime = frameTime / 2, in ticks
paNoError == 0
paContinue == 0
SilenceUInt8 == 128       \* 0x80
SilenceOther == 0         \* CallbackData callbackData = {0}

\* What an uninitialised byte of the malloc'ed staging buffer may hold.
UninitBytes == {0, 255}

\* The ring storage is malloc'ed too; its slots start with this filler, which
\* is no byte of the source, so that a slot read before it is written shows.
UninitFill == 255

\* sleep_for(sleepTime) sleeps for at least sleepTime: the ticks a sleep may take.
MaxSleepTicks == SleepTime + 1
SleepTicks == SleepTime .. MaxSleepTicks

\* The values of options.channels the model draws from.
ChannelCounts == {1}

\* The byte the source delivers at position i (1-based): all bytes differ,
\* so that a gap, a duplicate or a reordering shows.
SourceByte(i) == i

Min(a, b) == IF a < b THEN a ELSE b

(* --------------------------- nextPowerOfTwo ---------------------------- *)
\* v >> i for the values the model uses (v < 2^30).
ShiftRight(v, i) == IF i >= 30 THEN 0 ELSE v \div (2 ^ i)

RECURSIVE BitOr(_, _)
BitOr(a, b) ==
    IF a = 0 THEN b
    ELSE IF b = 0 THEN a
    ELSE (IF (a % 2 = 1) \/ (b % 2 = 1) THEN 1 ELSE 0) + 2 * BitOr(a \div 2, b \div 2)

RECURSIVE BitAnd(_, _)
BitAnd(a, b) ==
    IF a = 0 \/ b = 0 THEN 0
    ELSE (IF (a % 2 = 1) /\ (b % 2 = 1) THEN 1 ELSE 0) + 2 * BitAnd(a \div 2, b \div 2)

\* for (i = 1; i < sizeof(v) * CHAR_BIT; i <<= 1) v |= v >> i;
RECURSIVE SmearLoop(_, _)
SmearLoop(v, i) ==
    IF i < 64 THEN SmearLoop(BitOr(v, ShiftRight(v, i)), 2 * i) ELSE v

\* The smearing without the decrement before it.
nextPowerOfTwoNoDecrement(v) == SmearLoop(v, 1) + 1

\* Defined for 1 <= v < 2^30 (the decrement of 0 wraps in the code).
nextPowerOfTwo(v) == SmearLoop(v - 1, 1) + 1

(* ------------------------------ options -------------------------------- *)
\* The rows of formatOptMap the model draws from.
FormatOptMap ==
    { [optarg |-> "u8",  sampleFormat |-> "paUInt8", sampleSize |-> 1],
        [optarg |-> "s16", sampleFormat |-> "paInt16", sampleSize |-> 2] }

Timeouts == (0 .. MaxTimeout) \cup {Infinity}

OptionsSet ==
    { [channels |-> c, sampleFormat |-> f.sampleFormat, sampleSize |-> f.sampleSize,
       framesPerBuffer |-> q, timeout |-> t] :
         c \in ChannelCounts, f \in FormatOptMap,
         q \in 1 .. MaxFramesPerBuffer, t \in Timeouts }

VARIABLES
    options,        \* Options, read-only after getOpts
    srcLen,         \* number of bytes the source will deliver
    srcPos,         \* number of bytes the source has delivered
    srcState,       \* "open", "eof" (write end closed), "err" (read fails)
    pc,             \* position of main()
    result,         \* main's result, the exit status
    error,          \* main's PaError error
    pipeState,      \* pipeBuffer pointer: "null", "allocated", "freed"
    pipeBuffer,     \* contents of the staging buffer
    sampleState,    \* sampleBuffer pointer: "null", "allocated", "freed"
    sampleBuffer,   \* contents of the ring storage, one frame per slot
    callbackData,   \* CallbackData: ringBuffer and silenceByte
    paState,        \* PortAudio: "uninit", "init", "terminated"
    stream,         \* PaStream*: "null", "open", "closed"
    streamState,    \* "idle", "active", "stopped", "error"
    elapsed,        \* now - then
    byteIndex,
    stdinOpen,
    canGetByte,
    framesAvailable,
    warned,         \* "ring buffer starved!" was emitted in the current cycle
    exitCause,      \* which conjunct of the loop condition ended the loop
    readCalls,      \* number of read() calls made so far
    heapOps,        \* number of malloc, free and Pa_CloseStream calls made so far
    outputBuffer,   \* the output of the last streamCallback
    framesRead,     \* framesRead of the last streamCallback
    played,         \* frames copied out of the ring by all callbacks, in order
    log             \* events handed to the logging macros

vars == << options, srcLen, srcPos, srcState, pc, result, error, pipeState,
           pipeBuffer, sampleState, sampleBuffer, callbackData, paState, stream,
           streamState, elapsed, byteIndex, stdinOpen, canGetByte,
           framesAvailable, warned, exitCause, readCalls, heapOps, outputBuffer, framesRead, played, log >>

envVars == << options, srcLen >>
srcVars == << srcPos, srcState >>
heapVars == << pipeState, pipeBuffer, sampleState, sampleBuffer >>
paVars == << paState, stream, streamState >>
loopVars == << elapsed, byteIndex, stdinOpen, canGetByte, framesAvailable, warned, exitCause >>
ghostVars == << readCalls, heapOps >>
cbVars == << outputBuffer, framesRead, played >>

frameSize == options.sampleSize * options.channels
ringBufferSize == nextPowerOfTwo(options.framesPerBuffer)

(* ------------------------- ring buffer (4.1) --------------------------- *)
PaUtil_InitializeRingBuffer(elementSizeBytes, elementCount) ==
    [elementSizeBytes |-> elementSizeBytes, bufferSize |-> elementCount,
     writeCursor |-> 0, readCursor |-> 0]

PaUtil_GetRingBufferReadAvailable(rb) == rb.writeCursor - rb.readCursor

PaUtil_GetRingBufferWriteAvailable(rb) ==
    rb.bufferSize - PaUtil_GetRingBufferReadAvailable(rb)

\* physical index = count & (capacity - 1)
PhysicalIndex(rb, count) == BitAnd(count, rb.bufferSize - 1)

\* Number of frames a write of elementCount frames copies.
WriteCount(rb, elementCount) == Min(elementCount, PaUtil_GetRingBufferWriteAvailable(rb))

\* Number of frames a read of elementCount frames copies.
ReadCount(rb, elementCount) == Min(elementCount, PaUtil_GetRingBufferReadAvailable(rb))

PaUtil_AdvanceRingBufferWriteIndex(rb, n) == [rb EXCEPT !.writeCursor = @ + n]

PaUtil_AdvanceRingBufferReadIndex(rb, n) == [rb EXCEPT !.readCursor = @ + n]

\* write(frames, count): the ring and its storage after the write, and the count copied.
PaUtil_WriteRingBuffer(rb, mem, frames, elementCount) ==
    LET n == WriteCount(rb, elementCount)
        slot(i) == PhysicalIndex(rb, rb.writeCursor + i - 1)
    IN  [rb  |-> PaUtil_AdvanceRingBufferWriteIndex(rb, n),
         mem |-> [s \in DOMAIN mem |->
                    IF \E i \in 1 .. n : slot(i) = s
                    THEN frames[CHOOSE i \in 1 .. n : slot(i) = s]
                    ELSE mem[s]],
         n   |-> n]

\* read(dest, maxCount): the ring after the read, the frames copied, and their count.
PaUtil_ReadRingBuffer(rb, mem, elementCount) ==
    LET n == ReadCount(rb, elementCount)
    IN  [rb   |-> PaUtil_AdvanceRingBufferReadIndex(rb, n),
         data |-> [i \in 1 .. n |-> mem[PhysicalIndex(rb, rb.readCursor + i - 1)]],
         n    |-> n]

(* ----------------------------- helpers --------------------------------- *)
RECURSIVE Flatten(_)
Flatten(frames) == IF frames = << >> THEN << >> ELSE Head(frames) \o Flatten(Tail(frames))

\* (now - then) < timeout
WithinTimeout(d, t) == IF t = Infinity THEN TRUE ELSE d < t

\* Pa_IsStreamActive: 1 active, 0 stopped, negative on error.
Pa_IsStreamActive(s) == IF s = "active" THEN 1 ELSE IF s = "error" THEN -1 ELSE 0

\* The largest difference the model keeps: with a finite timeout the loop ends
\* before it is reached; with an infinite timeout the difference is never
\* compared with anything, and one sleep is kept.
ElapsedCap(timeout) == IF timeout = Infinity THEN SleepTime ELSE MaxTimeout + MaxSleepTicks

(* ------------------------------- Init ---------------------------------- *)
InitFrom(optionsSet, lengths) ==
    /\ options \in optionsSet
    /\ srcLen \in lengths
    /\ srcPos = 0
    /\ srcState = "open"
    /\ pc = "allocPipe"
    /\ result = 0
    /\ error = paNoError
    /\ pipeState = "null"
    /\ pipeBuffer = << >>
    /\ sampleState = "null"
    /\ sampleBuffer = << >>
    /\ callbackData = [ringBuffer |-> PaUtil_InitializeRingBuffer(0, 0), silenceByte |-> SilenceOther]
    /\ paState = "uninit"
    /\ stream = "null"
    /\ streamState = "idle"
    /\ elapsed = 0
    /\ byteIndex = 0
    /\ stdinOpen = TRUE
    /\ canGetByte = TRUE
    /\ framesAvailable = 0
    /\ warned = FALSE
    /\ exitCause = "none"
    /\ readCalls = 0
    /\ heapOps = [pipeMalloc |-> 0, pipeFree |-> 0, ringMalloc |-> 0, ringFree |-> 0,
                  streamClose |-> 0]
    /\ outputBuffer = << >>
    /\ framesRead = 0
    /\ played = << >>
    /\ log = {}

Init == InitFrom(OptionsSet, 0 .. MaxSrcLen)

(* ------------------------- initialisation ------------------------------ *)
\* FATAL(...): the event is logged and result = 1.
Fatal(event) ==
    /\ log' = log \cup {event}
    /\ result' = 1

\* Lines 282-292: the staging buffer.
AllocPipe ==
    /\ pc = "allocPipe"
    /\ pc' = "allocRing"
    /\ heapOps' = [heapOps EXCEPT !.pipeMalloc = @ + 1]
    /\ \/ /\ \E g \in UninitBytes : pipeBuffer' = [i \in 1 .. frameSize |-> g]
          /\ pipeState' = "allocated"
          /\ UNCHANGED << result, log >>
       \/ /\ Fatal("could not allocate memory for pipe buffer")
          /\ UNCHANGED << pipeState, pipeBuffer >>
    /\ UNCHANGED << envVars, srcVars, error, sampleState, sampleBuffer, callbackData,
                    paVars, loopVars, readCalls, cbVars >>

\* A ring allocation that does not look at result.
RingAllocUnguarded == TRUE

\* Line 297: if (result == 0)
RingAllocGuard == result = 0

\* Lines 294-305: the ring storage, ringBufferSize frames.
AllocRing ==
    /\ pc = "allocRing"
    /\ pc' = "paInit"
    /\ \/ /\ RingAllocGuard
          /\ sampleBuffer' = [s \in 0 .. ringBufferSize - 1 |->
                                  [i \in 1 .. frameSize |-> UninitFill]]
          /\ sampleState' = "allocated"
          /\ heapOps' = [heapOps EXCEPT !.ringMalloc = @ + 1]
          /\ UNCHANGED << result, log >>
       \/ /\ RingAllocGuard
          /\ Fatal("could not allocate memory for ring buffer")
          /\ heapOps' = [heapOps EXCEPT !.ringMalloc = @ + 1]
          /\ UNCHANGED << sampleState, sampleBuffer >>
       \/ /\ ~RingAllocGuard
          /\ UNCHANGED << result, log, sampleState, sampleBuffer, heapOps >>
    /\ UNCHANGED << envVars, srcVars, error, pipeState, pipeBuffer, callbackData,
                    paVars, loopVars, readCalls, cbVars >>

\* A ring descriptor that claims twice the frames that were allocated.
RingInitCountDoubled == 2 * ringBufferSize

\* Line 311: the element count handed to PaUtil_InitializeRingBuffer.
RingInitCount == ringBufferSize

\* The silence byte left at zero for every format.
SilenceByteAlwaysZero(sampleFormat) == SilenceOther

\* Lines 312-316: the silence byte of the sample format.
SilenceByteFor(sampleFormat) ==
    IF sampleFormat = "paUInt8" THEN SilenceUInt8 ELSE SilenceOther

\* Lines 307-324: ring buffer descriptor, silence byte, Pa_Initialize.
PaInit ==
    /\ pc = "paInit"
    /\ pc' = "getDevice"
    /\ \/ /\ result = 0
          /\ callbackData' = [ringBuffer |-> PaUtil_InitializeRingBuffer(frameSize, RingInitCount),
                              silenceByte |-> SilenceByteFor(options.sampleFormat)]
          /\ \/ /\ paState' = "init"
                /\ error' = paNoError
                /\ UNCHANGED << result, log >>
             \/ /\ error' = -1
                /\ Fatal("could not initialize PortAudio")
                /\ UNCHANGED paState
       \/ /\ result # 0
          /\ UNCHANGED << callbackData, paState, error, result, log >>
    /\ UNCHANGED << envVars, srcVars, heapVars, stream, streamState,
                    loopVars, ghostVars, cbVars >>

\* Lines 326-336: Pa_GetDefaultOutputDevice.
GetDevice ==
    /\ pc = "getDevice"
    /\ pc' = "openStream"
    /\ \/ /\ result = 0
          /\ UNCHANGED << result, log >>
       \/ /\ result = 0
          /\ Fatal("could not detect default output device")
       \/ /\ result # 0
          /\ UNCHANGED << result, log >>
    /\ UNCHANGED << envVars, srcVars, error, heapVars, callbackData, paVars,
                    loopVars, ghostVars, cbVars >>

\* Lines 338-369: Pa_OpenStream.
OpenStream ==
    /\ pc = "openStream"
    /\ pc' = "startStream"
    /\ \/ /\ result = 0
          /\ stream' = "open"
          /\ error' = paNoError
          /\ UNCHANGED << result, log >>
       \/ /\ result = 0
          /\ error' = -1
          /\ Fatal("could not open stream")
          /\ UNCHANGED stream
       \/ /\ result # 0
          /\ UNCHANGED << stream, error, result, log >>
    /\ UNCHANGED << envVars, srcVars, heapVars, callbackData, paState, streamState,
                    loopVars, ghostVars, cbVars >>

\* Lines 371-379: Pa_StartStream.
StartStream ==
    /\ pc = "startStream"
    /\ pc' = "enterLoop"
    /\ \/ /\ result = 0
          /\ streamState' = "active"
          /\ error' = paNoError
          /\ UNCHANGED << result, log >>
       \/ /\ result = 0
          /\ error' = -1
          /\ Fatal("could not start stream")
          /\ UNCHANGED streamState
       \/ /\ result # 0
          /\ UNCHANGED << streamState, error, result, log >>
    /\ UNCHANGED << envVars, srcVars, heapVars, callbackData, paState, stream,
                    loopVars, ghostVars, cbVars >>

(* ---------------------------- drain loop ------------------------------- *)
\* Lines 381-395: then = now, byteIndex = 0, stdinOpen = true.
EnterLoop ==
    /\ pc = "enterLoop"
    /\ IF result = 0
       THEN /\ pc' = "loopCheck"
            /\ elapsed' = 0
            /\ byteIndex' = 0
            /\ stdinOpen' = TRUE
       ELSE /\ pc' = "closeStream"
            /\ UNCHANGED << elapsed, byteIndex, stdinOpen >>
    /\ UNCHANGED << envVars, srcVars, result, error, heapVars, callbackData, paVars,
                    canGetByte, framesAvailable, warned, exitCause,
                    ghostVars, cbVars, log >>

\* A loop condition that forgets the timeout.
SourceOpenOnly == stdinOpen

\* Line 396: the first two conjuncts of the loop condition.
SourceOpenAndInTime == stdinOpen /\ WithinTimeout(elapsed, options.timeout)

\* Line 396: while (stdinOpen && (now - then) < timeout &&
\*                  (error = Pa_IsStreamActive(stream)) == 1)
LoopCheck ==
    /\ pc = "loopCheck"
    /\ IF SourceOpenAndInTime
       THEN /\ error' = Pa_IsStreamActive(streamState)
            /\ IF Pa_IsStreamActive(streamState) = 1
               THEN /\ pc' = "cycleStart"
                    /\ UNCHANGED exitCause
               ELSE /\ pc' = "classify"
                    /\ exitCause' = "inactive"
       ELSE /\ pc' = "classify"
            /\ exitCause' = IF ~stdinOpen THEN "closed" ELSE "timeout"
            /\ UNCHANGED error
    /\ UNCHANGED << envVars, srcVars, result, heapVars, callbackData, paVars,
                    elapsed, byteIndex, stdinOpen, canGetByte, framesAvailable, warned,
                    ghostVars, cbVars, log >>

\* A warning given when no space is left instead.
StarvedWhenFull(available, rb) == available = 0

\* Line 400: if (framesAvailable == callbackData.ringBuffer.bufferSize)
Starved(available, rb) == available = rb.bufferSize

\* Lines 398-403: the snapshot of the free space and the starvation warning.
CycleStart ==
    /\ pc = "cycleStart"
    /\ pc' = "inner"
    /\ canGetByte' = TRUE
    /\ framesAvailable' = PaUtil_GetRingBufferWriteAvailable(callbackData.ringBuffer)
    /\ warned' = Starved(PaUtil_GetRingBufferWriteAvailable(callbackData.ringBuffer),
                          callbackData.ringBuffer)
    /\ UNCHANGED << envVars, srcVars, result, error, heapVars, callbackData, paVars,
                    elapsed, byteIndex, stdinOpen, exitCause,
                    ghostVars, cbVars, log >>

\* An inner loop that does not look at the snapshot of the free space.
InnerConditionNoSpace == canGetByte /\ byteIndex < frameSize

\* Line 404: while (canGetByte && framesAvailable > 0 && byteIndex < frameSize)
InnerCondition == canGetByte /\ framesAvailable > 0 /\ byteIndex < frameSize

\* Line 404, condition false: leave the inner loop.
InnerExit ==
    /\ pc = "inner"
    /\ ~InnerCondition
    /\ pc' = "sleep"
    /\ UNCHANGED << envVars, srcVars, result, error, heapVars, callbackData, paVars,
                    loopVars, ghostVars, cbVars, log >>

\* Lines 408-410: select fails; FATAL, and break leaves the switch only.
InnerSelectError ==
    /\ pc = "inner"
    /\ InnerCondition
    /\ Fatal("error when checking input pipe")
    /\ UNCHANGED << envVars, srcVars, pc, error, heapVars, callbackData, paVars,
                    loopVars, ghostVars, cbVars >>

\* Lines 411-414: nothing to read now.  A closed or failed source is always
\* reported readable by select.
InnerNotReady ==
    /\ pc = "inner"
    /\ InnerCondition
    /\ srcState = "open"
    /\ canGetByte' = FALSE
    /\ UNCHANGED << envVars, srcVars, pc, result, error, heapVars, callbackData, paVars,
                    elapsed, byteIndex, stdinOpen, framesAvailable, warned, exitCause,
                    ghostVars, cbVars, log >>

\* Line 423: then = now, whatever read returned.
ElapsedAfterRead(ret, d) == 0

\* Lines 415-424: read(STDIN_FILENO, &pipeBuffer[byteIndex++], 1) returned ret
\* (1: one byte, 0: end of file, -1: error) and stored byte when ret = 1.
InnerRead(ret, byte) ==
    LET staged == IF ret > 0 THEN [pipeBuffer EXCEPT ![byteIndex + 1] = byte]
                             ELSE pipeBuffer
        full   == byteIndex + 1 = frameSize
        rb     == callbackData.ringBuffer
        w      == PaUtil_WriteRingBuffer(rb, sampleBuffer, << staged >>, 1)
    IN  /\ pipeBuffer' = staged
        /\ stdinOpen' = (ret > 0)
        /\ readCalls' = readCalls + 1
        /\ UNCHANGED heapOps
        /\ IF full
           THEN /\ callbackData' = [callbackData EXCEPT !.ringBuffer = w.rb]
                /\ sampleBuffer' = w.mem
                /\ framesAvailable' = framesAvailable - 1
                /\ byteIndex' = 0
           ELSE /\ byteIndex' = byteIndex + 1
                /\ UNCHANGED << callbackData, sampleBuffer, framesAvailable >>
        /\ elapsed' = ElapsedAfterRead(ret, elapsed)

\* select reports the source readable and read delivers the next byte.
InnerReadByte ==
    /\ pc = "inner"
    /\ InnerCondition
    /\ srcState = "open"
    /\ srcPos < srcLen
    /\ InnerRead(1, SourceByte(srcPos + 1))
    /\ srcPos' = srcPos + 1
    /\ UNCHANGED << envVars, srcState, pc, result, error, pipeState, sampleState, paVars,
                    canGetByte, warned, exitCause, cbVars, log >>

\* read returns 0: the write end of the pipe is closed, and stays closed.
InnerReadEOF ==
    /\ pc = "inner"
    /\ InnerCondition
    /\ \/ srcState = "eof"
       \/ srcState = "open" /\ srcPos = srcLen
    /\ InnerRead(0, 0)
    /\ srcState' = "eof"
    /\ UNCHANGED << envVars, srcPos, pc, result, error, pipeState, sampleState, paVars,
                    canGetByte, warned, exitCause, cbVars, log >>

\* read returns -1: the source fails, and keeps failing.
InnerReadError ==
    /\ pc = "inner"
    /\ InnerCondition
    /\ srcState \in {"open", "err"}
    /\ InnerRead(-1, 0)
    /\ srcState' = "err"
    /\ UNCHANGED << envVars, srcPos, pc, result, error, pipeState, sampleState, paVars,
                    canGetByte, warned, exitCause, cbVars, log >>

\* Lines 428-429: sleep_for(sleepTime); now = clock::now().  With an infinite
\* timeout the difference is never compared with anything and is capped.
Sleep ==
    /\ pc = "sleep"
    /\ pc' = "loopCheck"
    /\ \E d \in SleepTicks :
          elapsed' = Min(elapsed + d, ElapsedCap(options.timeout))
    /\ UNCHANGED << envVars, srcVars, result, error, heapVars, callbackData, paVars,
                    byteIndex, stdinOpen, canGetByte, framesAvailable, warned, exitCause,
                    ghostVars, cbVars, log >>

\* Lines 432-439: the message that classifies the end of the loop.
Classification ==
    IF stdinOpen /\ WithinTimeout(elapsed, options.timeout)
    THEN {"timed out waiting for input pipe"}
    ELSE IF ~stdinOpen THEN {"input pipe closed"} ELSE {}

\* Lines 441-444: the stream ended in an error state.
StreamFailed == error < 0

\* Lines 432-445.
Classify ==
    /\ pc = "classify"
    /\ pc' = "closeStream"
    /\ log' = log \cup Classification
                  \cup (IF StreamFailed THEN {"stream unexpectedly stopped"} ELSE {})
    /\ result' = IF StreamFailed THEN 1 ELSE result
    /\ UNCHANGED << envVars, srcVars, error, heapVars, callbackData, paVars,
                    loopVars, ghostVars, cbVars >>

(* ------------------------------ teardown ------------------------------- *)
\* A teardown that never closes the stream.
StreamNeverClosed == FALSE

\* Line 447: if (stream != nullptr)
StreamToClose == stream # "null"

\* Lines 447-455: Pa_CloseStream, if the stream was opened.
CloseStream ==
    /\ pc = "closeStream"
    /\ pc' = "terminate"
    /\ IF StreamToClose
       THEN /\ stream' = "closed"
            /\ streamState' = "idle"
            /\ error' \in {paNoError, -1}
            /\ heapOps' = [heapOps EXCEPT !.streamClose = @ + 1]
       ELSE UNCHANGED << stream, streamState, error, heapOps >>
    /\ UNCHANGED << envVars, srcVars, result, heapVars, callbackData, paState,
                    loopVars, readCalls, cbVars, log >>

\* Lines 457-458: Pa_Terminate.
Terminate ==
    /\ pc = "terminate"
    /\ pc' = "freeRing"
    /\ paState' = "terminated"
    /\ UNCHANGED << envVars, srcVars, result, error, heapVars, callbackData, stream,
                    streamState, loopVars, ghostVars, cbVars, log >>

\* Lines 460-464: free(sampleBuffer).
FreeRing ==
    /\ pc = "freeRing"
    /\ pc' = "freePipe"
    /\ IF sampleState # "null"
       THEN /\ sampleState' = "freed"
            /\ heapOps' = [heapOps EXCEPT !.ringFree = @ + 1]
       ELSE UNCHANGED << sampleState, heapOps >>
    /\ UNCHANGED << envVars, srcVars, result, error, pipeState, pipeBuffer, sampleBuffer,
                    callbackData, paVars, loopVars, readCalls, cbVars, log >>

\* A teardown that forgets the staging buffer.
PipeNeverFreed == FALSE

\* Line 466: if (pipeBuffer != nullptr)
PipeToFree == pipeState # "null"

\* Lines 466-472: free(pipeBuffer); return result.
FreePipe ==
    /\ pc = "freePipe"
    /\ pc' = "done"
    /\ IF PipeToFree
       THEN /\ pipeState' = "freed"
            /\ heapOps' = [heapOps EXCEPT !.pipeFree = @ + 1]
       ELSE UNCHANGED << pipeState, heapOps >>
    /\ UNCHANGED << envVars, srcVars, result, error, pipeBuffer, sampleState, sampleBuffer,
                    callbackData, paVars, loopVars, readCalls, cbVars, log >>

(* --------------------------- audio thread ------------------------------ *)
\* A callback that asks the ring buffer for nothing.
CallbackRequestNothing(framesPerBuffer, rb) == 0

\* Line 69: std::min(framesPerBuffer, PaUtil_GetRingBufferReadAvailable(&ringBuffer))
CallbackRequest(framesPerBuffer, rb) ==
    Min(framesPerBuffer, PaUtil_GetRingBufferReadAvailable(rb))

\* Line 75: memset(outputBuffer + bytesRead, silenceByte, bytesLeft)
SilenceFill(silenceByte, bytesLeft) == [i \in 1 .. bytesLeft |-> silenceByte]

\* A callback that asks PortAudio to finish the stream.
CallbackResultNotContinue == paContinue + 1

\* Line 77: return paContinue;
CallbackResult == paContinue

\* PortAudio keeps invoking the callback while it returns paContinue and
\* ends the stream otherwise.
StreamStateAfterCallback(ret, state) == IF ret = paContinue THEN state ELSE "stopped"

\* Lines 54-78, invoked by PortAudio while the stream is active.
streamCallback ==
    /\ stream = "open"
    /\ streamState = "active"
    /\ LET rb        == callbackData.ringBuffer
           asked     == CallbackRequest(options.framesPerBuffer, rb)
           r         == PaUtil_ReadRingBuffer(rb, sampleBuffer, asked)
           bytesRead == r.n * rb.elementSizeBytes
           bytesLeft == (options.framesPerBuffer * rb.elementSizeBytes) - bytesRead
       IN  /\ callbackData' = [callbackData EXCEPT !.ringBuffer = r.rb]
           /\ framesRead' = r.n
           /\ outputBuffer' = Flatten(r.data) \o SilenceFill(callbackData.silenceByte, bytesLeft)
           /\ played' = played \o r.data
    /\ streamState' = StreamStateAfterCallback(CallbackResult, streamState)
    /\ UNCHANGED << envVars, srcVars, pc, result, error, pipeState, pipeBuffer,
                    sampleState, sampleBuffer, paState, stream, loopVars, ghostVars, log >>

\* The device stops the stream.
StreamStops ==
    /\ stream = "open"
    /\ streamState = "active"
    /\ streamState' = "stopped"
    /\ UNCHANGED << envVars, srcVars, pc, result, error, heapVars, callbackData, paState,
                    stream, loopVars, ghostVars, cbVars, log >>

\* The device fails.
StreamFails ==
    /\ stream = "open"
    /\ streamState = "active"
    /\ streamState' = "error"
    /\ UNCHANGED << envVars, srcVars, pc, result, error, heapVars, callbackData, paState,
                    stream, loopVars, ghostVars, cbVars, log >>

(* --------------------------- specification ----------------------------- *)
MainStep ==
    \/ AllocPipe \/ AllocRing \/ PaInit \/ GetDevice \/ OpenStream \/ StartStream
    \/ EnterLoop \/ LoopCheck \/ CycleStart
    \/ InnerExit \/ InnerSelectError \/ InnerNotReady
    \/ InnerReadByte \/ InnerReadEOF \/ InnerReadError
    \/ Sleep \/ Classify
    \/ CloseStream \/ Terminate \/ FreeRing \/ FreePipe

Next == MainStep \/ streamCallback \/ StreamStops \/ StreamFails

Spec == Init /\ [][Next]_vars

(* --------------------- the timeout scenario (C7) ----------------------- *)
\* The source stays open and delivers one byte and then nothing; select and
\* read never fail; the stream stays active; the timeout is finite.
InitTimeout ==
    /\ Init
    /\ srcLen = 1
    /\ options.timeout # Infinity

MainStepTimeout ==
    \/ AllocPipe \/ AllocRing \/ PaInit \/ GetDevice \/ OpenStream \/ StartStream
    \/ EnterLoop \/ LoopCheck \/ CycleStart
    \/ InnerExit \/ InnerNotReady \/ InnerReadByte
    \/ Sleep \/ Classify
    \/ CloseStream \/ Terminate \/ FreeRing \/ FreePipe

NextTimeout == MainStepTimeout \/ streamCallback

\* main() is a running thread: it takes its next step.
SpecTimeout == InitTimeout /\ [][NextTimeout]_vars /\ WF_vars(MainStepTimeout)

(* --------------------- the sizing scenario (C15) ----------------------- *)
\* -b takes any positive frame count; the run is followed up to the
\* initialisation of the ring buffer.
SizingOptionsSet ==
    { [channels |-> 1, sampleFormat |-> "paUInt8", sampleSize |-> 1,
       framesPerBuffer |-> q, timeout |-> Infinity] : q \in 1 .. MaxRequest }

InitSizing == InitFrom(SizingOptionsSet, {0})

NextSizing == AllocPipe \/ AllocRing \/ PaInit

SpecSizing == InitSizing /\ [][NextSizing]_vars

(* ------------------------------ claims --------------------------------- *)
ring == callbackData.ringBuffer
RingInitialised == ring.elementSizeBytes # 0
InLoop == pc \in {"loopCheck", "cycleStart", "inner", "sleep"}

\* The k-th whole frame of the source (1-based).
SourceFrame(k) == [i \in 1 .. frameSize |-> SourceByte((k - 1) * frameSize + i)]

\* The step is a read() call; it delivered a byte.
ReadStep == readCalls' = readCalls + 1
ByteStep == srcPos' = srcPos + 1

\* The step is a streamCallback invocation.
CallbackStep ==
    \/ callbackData'.ringBuffer.readCursor # ring.readCursor
    \/ outputBuffer' # outputBuffer
    \/ framesRead' # framesRead

\* C1: once the ring buffer is initialised, readAvailable() + writeAvailable()
\* equals the capacity (the ringBufferSize frames that were allocated) and
\* 0 <= writeCursor - readCursor <= capacity in every state, under every
\* interleaving of the drain loop and streamCallback; and no step advances a
\* cursor by more frames than were available to it when it ran.
C1_RingState ==
    RingInitialised =>
        LET capacity == ringBufferSize
        IN  /\ PaUtil_GetRingBufferReadAvailable(ring)
                 + PaUtil_GetRingBufferWriteAvailable(ring) = capacity
            /\ ring.writeCursor - ring.readCursor >= 0
            /\ ring.writeCursor - ring.readCursor <= capacity
            /\ DOMAIN sampleBuffer = 0 .. capacity - 1

C1_CopyStep ==
    RingInitialised =>
        LET w == callbackData'.ringBuffer.writeCursor - ring.writeCursor
            r == callbackData'.ringBuffer.readCursor - ring.readCursor
            buffered == ring.writeCursor - ring.readCursor
        IN  /\ 0 <= w /\ w <= ring.bufferSize - buffered
            /\ 0 <= r /\ r <= buffered

C1_RingInvariant == [] C1_RingState /\ [][C1_CopyStep]_vars

\* C1 witness: the ring is full after the consumer has already read from it.
C1_Witness ==
    /\ RingInitialised
    /\ ring.bufferSize >= 2
    /\ ring.readCursor > 0
    /\ ring.writeCursor - ring.readCursor = ring.bufferSize

\* C2: the frames the callbacks copied out of the ring, concatenated, are a
\* prefix of the whole frames read from the source: the k-th frame played is
\* the k-th frame of the source, and its bytes were read.
C2_PlayedIsSourcePrefix ==
    \A k \in 1 .. Len(played) :
        /\ k * frameSize <= srcPos
        /\ played[k] = SourceFrame(k)

\* C3: every frame in the ring consists of frameSize bytes the source
\* delivered, contiguous and in source order: the frame written at cursor c
\* is the (c+1)-th frame of the source, and all its bytes were read.
C3_OnlyWholeSourceFrames ==
    RingInitialised =>
        \A c \in ring.readCursor .. ring.writeCursor - 1 :
            /\ (c + 1) * frameSize <= srcPos
            /\ sampleBuffer[PhysicalIndex(ring, c)] = SourceFrame(c + 1)

\* C4: a read that returns zero bytes ends the drain loop at once: the step
\* of the zero-length read writes nothing to the ring, and after it there is
\* no further read of the source and no further write to the ring.
C4_EofStep ==
    /\ (srcState' = "eof" /\ ReadStep) =>
           callbackData'.ringBuffer.writeCursor = ring.writeCursor
    /\ srcState = "eof" =>
           /\ readCalls' = readCalls
           /\ callbackData'.ringBuffer.writeCursor = ring.writeCursor

C4_NothingAfterEof == [][C4_EofStep]_vars

\* C5: a callback that asks for Q frames while the ring holds k copies
\* n = min(Q, k) frames: the first n frames of the output are the n oldest
\* buffered frames, the remaining (Q - n) * frameSize bytes are the silence
\* byte, which is 0x80 for unsigned 8-bit and 0x00 for every other format.
C5_CallbackStep ==
    CallbackStep =>
        LET Q == options.framesPerBuffer
            k == ring.writeCursor - ring.readCursor
            n == IF Q < k THEN Q ELSE k
            silence == IF options.sampleFormat = "paUInt8" THEN 128 ELSE 0
        IN  /\ framesRead' = n
            /\ Len(outputBuffer') = Q * frameSize
            /\ \A i \in 1 .. n : \A j \in 1 .. frameSize :
                  outputBuffer'[(i - 1) * frameSize + j]
                     = sampleBuffer[PhysicalIndex(ring, ring.readCursor + i - 1)][j]
            /\ \A b \in n * frameSize + 1 .. Q * frameSize : outputBuffer'[b] = silence

C5_CallbackOutput == [][C5_CallbackStep]_vars

\* C5 witness: an unsigned 8-bit callback delivered some frames and padded the rest.
C5_Witness ==
    /\ options.sampleFormat = "paUInt8"
    /\ framesRead > 0
    /\ framesRead < options.framesPerBuffer
    /\ Len(outputBuffer) = options.framesPerBuffer * frameSize
    /\ outputBuffer[Len(outputBuffer)] = SilenceUInt8

\* C6: a read of the source that fails marks the run failed (non-zero exit
\* status) and the end of the loop is not reported as a closed input pipe.
C6_ReadErrorIsFatal ==
    (pc = "done" /\ srcState = "err") =>
        /\ result # 0
        /\ "input pipe closed" \notin log

\* C7: with a source that stays open and delivers one byte and no more, a
\* finite timeout T and a stream that stays active, the drain loop ends, and
\* when it ends no more than one sleep interval has passed beyond T since
\* the cycle of the last read.
C7_LoopEnds ==
    /\ InLoop ~> (pc = "classify")
    /\ [](pc = "classify" => elapsed < options.timeout + MaxSleepTicks)

\* C7 witness: the byte was read, and the loop then ended on the timeout.
C7_Witness ==
    /\ pc = "classify"
    /\ exitCause = "timeout"
    /\ srcPos = 1
    /\ options.timeout > 0
    /\ elapsed >= options.timeout

\* C8: after the loop, "timed out" is reported exactly when the loop ended on
\* the timeout with the source open, "input pipe closed" exactly when the
\* source was closed, and neither when the stream was no longer active.
C8_ClassifiedByCause ==
    (pc = "closeStream" /\ exitCause # "none") =>
        /\ ("timed out waiting for input pipe" \in log) <=> (exitCause = "timeout")
        /\ ("input pipe closed" \in log) <=> (exitCause = "closed")

\* C9: the loop ends on the timeout only when the time since the last read
\* has reached a finite timeout; a read that delivers a byte restarts the
\* clock; a zero-length or failed read leaves the clock alone.
C9_ClockStep ==
    /\ (ReadStep /\ ByteStep) => elapsed' = 0
    /\ (ReadStep /\ ~ByteStep) => elapsed' = elapsed

C9_TimeoutClock ==
    /\ [](exitCause = "timeout" =>
            options.timeout # Infinity /\ elapsed >= options.timeout)
    /\ [][C9_ClockStep]_vars

\* The causes sections 6 and 7 of the specification call fatal.
InitFailed ==
    \E e \in { "could not allocate memory for pipe buffer",
               "could not allocate memory for ring buffer",
               "could not initialize PortAudio",
               "could not detect default output device",
               "could not open stream",
               "could not start stream" } : e \in log
StreamErrorSeen == "stream unexpectedly stopped" \in log
SelectFailed == "error when checking input pipe" \in log
ReadFailed == srcState = "err"
FatalCause == InitFailed \/ StreamErrorSeen \/ SelectFailed \/ ReadFailed

\* C10: the exit status is zero exactly when no fatal cause occurred: a run
\* that ends by end of stream, by timeout or by the stream stopping exits 0;
\* a run with a failed initialisation step, a failed source or a stream in
\* an error state exits non-zero.
C10_ExitStatus == pc = "done" => (result = 0 <=> ~FatalCause)

\* The step copies a frame into the ring buffer or moves its write cursor.
RingWriteStep ==
    \/ callbackData'.ringBuffer.writeCursor # ring.writeCursor
    \/ sampleBuffer' # sampleBuffer

\* C11: on every path the teardown runs in dependency order: the stream is
\* closed (if it was opened) before the ring storage is released, the ring
\* storage is released before the staging buffer, and after the release of
\* the ring storage no streamCallback runs and nothing writes to the ring.
C11_OrderState ==
    /\ pc \in {"terminate", "freeRing", "freePipe", "done"} => stream # "open"
    /\ heapOps.ringFree > 0 => (stream # "open" /\ pc \in {"freePipe", "done"})
    /\ heapOps.pipeFree > 0 => (sampleState # "allocated" /\ pc = "done")
    /\ pc \in {"closeStream", "terminate", "freeRing"} => heapOps.ringFree = 0
    /\ pc \in {"closeStream", "terminate", "freeRing", "freePipe"} => heapOps.pipeFree = 0

C11_OrderStep ==
    pc \in {"freePipe", "done"} => (~CallbackStep /\ ~RingWriteStep /\ ~ReadStep)

InitSteps == {"allocPipe", "allocRing", "paInit", "getDevice", "openStream", "startStream",
              "enterLoop"}
TeardownSteps == {"closeStream", "terminate", "freeRing", "freePipe", "done"}

\* C12: once an initialisation step has failed, the later initialisation
\* steps acquire nothing and report nothing, the drain loop is never entered
\* (no read(), no callback), control is in the remaining skipped steps or in
\* the cleanup, and the cleanup releases what was acquired in the reverse of
\* the acquisition order (stream, PortAudio, ring storage, staging buffer).
C12_FailedState ==
    InitFailed =>
        /\ pc \in InitSteps \cup TeardownSteps
        /\ result # 0
        /\ readCalls = 0 /\ played = << >> /\ exitCause = "none"
        /\ streamState # "active"
        /\ pipeState = "freed" => sampleState # "allocated"
        /\ sampleState = "freed" => paState # "init"
        /\ paState = "terminated" => stream # "open"
        /\ pc = "done" => (pipeState # "allocated" /\ sampleState # "allocated"
                              /\ paState = "terminated" /\ stream # "open")

C12_FailedStep ==
    (InitFailed /\ pc \in InitSteps) =>
        /\ pc' \in InitSteps \cup {"closeStream"}
        /\ UNCHANGED << heapVars, heapOps, callbackData, paVars, result, error, log >>

C12_InitFailure == []C12_FailedState /\ [][C12_FailedStep]_vars

C12_Witness ==
    /\ "could not start stream" \in log
    /\ pc = "done"
    /\ pipeState = "freed"
    /\ sampleState = "freed"
    /\ stream = "closed"

\* C13: in every run malloc is called at most once for the staging buffer
\* and at most once for the ring storage; a buffer that was allocated is
\* freed exactly once by the end of the run and a buffer that was not is
\* never freed; Pa_CloseStream is called at most once, and not at all for a
\* stream that was never opened.
C13_AllocFreeOnce ==
    /\ heapOps.pipeMalloc <= 1 /\ heapOps.ringMalloc <= 1
    /\ heapOps.pipeFree <= heapOps.pipeMalloc
    /\ heapOps.ringFree <= heapOps.ringMalloc
    /\ heapOps.streamClose <= 1
    /\ pipeState = "null" => heapOps.pipeFree = 0
    /\ sampleState = "null" => heapOps.ringFree = 0
    /\ pipeState = "freed" <=> heapOps.pipeFree = 1
    /\ sampleState = "freed" <=> heapOps.ringFree = 1
    /\ stream = "closed" <=> heapOps.streamClose = 1
    /\ pc = "done" => (pipeState # "allocated" /\ sampleState # "allocated"
                          /\ stream # "open")

C13_Witness ==
    /\ pc = "done"
    /\ stream = "null"
    /\ heapOps.streamClose = 0
    /\ heapOps.pipeMalloc = 1 /\ heapOps.pipeFree = 1
    /\ heapOps.ringMalloc = 1 /\ heapOps.ringFree = 1

\* The step is a streamCallback invocation that padded its output with
\* silence: it got fewer frames than the device asked for.
PaddedCallbackStep == CallbackStep /\ framesRead' < options.framesPerBuffer

\* What the callback shares with main() besides the ring's read cursor, and
\* what main() reports.
UnderrunRecord ==
    << [callbackData EXCEPT !.ringBuffer.readCursor = 0], log, result, error >>

\* C14: every streamCallback invocation that got fewer than Q frames leaves
\* a record outside the callback (a count in the data it shares with main(),
\* or a report), so that the recorded underruns equal the padded callbacks.
C14_PaddedStep == PaddedCallbackStep => UnderrunRecord' # UnderrunRecord

C14_UnderrunCounted == [][C14_PaddedStep]_vars

RECURSIVE IsPowerOfTwo(_)
IsPowerOfTwo(n) == n = 1 \/ (n > 1 /\ n % 2 = 0 /\ IsPowerOfTwo(n \div 2))

\* C15: for every requested buffer size r in 1..MaxRequest, nextPowerOfTwo(r)
\* is a power of two, is at least r, and no smaller power of two is at least
\* r (1 gives 1, 370 gives 512, a power of two gives itself); the ring
\* storage has that many frame slots and the ring buffer that capacity.
C15_Capacity ==
    LET r == options.framesPerBuffer
        c == nextPowerOfTwo(r)
    IN  /\ IsPowerOfTwo(c)
        /\ c >= r
        /\ \A p \in r .. c - 1 : ~IsPowerOfTwo(p)
        /\ r = 1 => c = 1
        /\ r = 370 => c = 512
        /\ IsPowerOfTwo(r) => c = r
        /\ sampleState = "allocated" => DOMAIN sampleBuffer = 0 .. c - 1
        /\ RingInitialised => ring.bufferSize = c

C15_Witness ==
    /\ options.framesPerBuffer = 370
    /\ sampleState = "allocated"
    /\ RingInitialised
    /\ ring.bufferSize = 512

\* C16: in the drain loop the snapshot framesAvailable never exceeds the free
\* space of the ring; a ring write happens only in a read() step with
\* framesAvailable > 0, uses up one unit of the snapshot, advances
\* writeCursor by exactly one, stores the staged frame in the slot ahead of
\* the unread frames and leaves every unread slot as it was; every read()
\* step that completes a frame writes it; and while the snapshot is zero
\* nothing is read and the staging buffer is left alone.
C16_SnapshotState ==
    pc \in {"inner", "sleep"} =>
        /\ 0 <= framesAvailable
        /\ framesAvailable <= PaUtil_GetRingBufferWriteAvailable(ring)

C16_WriteStep ==
    LET rb      == callbackData'.ringBuffer
        slot    == PhysicalIndex(ring, ring.writeCursor)
        written == rb.writeCursor # ring.writeCursor \/ sampleBuffer' # sampleBuffer
    IN  /\ (InLoop /\ written) =>
              /\ ReadStep
              /\ framesAvailable > 0
              /\ framesAvailable' = framesAvailable - 1
              /\ rb.writeCursor = ring.writeCursor + 1
              /\ \A k \in ring.readCursor .. ring.writeCursor - 1 :
                    sampleBuffer'[PhysicalIndex(ring, k)] = sampleBuffer[PhysicalIndex(ring, k)]
        /\ (ReadStep /\ byteIndex + 1 = frameSize) =>
              /\ rb.writeCursor = ring.writeCursor + 1
              /\ sampleBuffer'[slot] = pipeBuffer'
        /\ (pc = "inner" /\ framesAvailable = 0) =>
              /\ ~ReadStep
              /\ UNCHANGED << pipeBuffer, byteIndex, srcPos, sampleBuffer >>
              /\ rb.writeCursor = ring.writeCursor

C16_NoWriteWhenFull == []C16_SnapshotState /\ [][C16_WriteStep]_vars

\* The inner loop stopped reading because the snapshot was used up, with
\* the ring full and the source still holding bytes.
C16_Witness ==
    /\ pc = "sleep"
    /\ framesAvailable = 0
    /\ ring.bufferSize = 2
    /\ PaUtil_GetRingBufferWriteAvailable(ring) = 0
    /\ srcState = "open"
    /\ srcPos < srcLen

\* C17: a streamCallback invocation leaves the stream active (it returned
\* paContinue), advances readCursor by exactly min(Q, readAvailable), and
\* leaves writeCursor, the ring storage, the staging buffer, the source and
\* every variable of main() (stdinOpen, the timeout clock, result, error,
\* the position of main) unchanged.
C17_CallbackStep ==
    CallbackStep =>
        LET Q == options.framesPerBuffer
            n == Min(Q, PaUtil_GetRingBufferReadAvailable(ring))
        IN  /\ streamState = "active" /\ streamState' = "active"
            /\ callbackData' = [callbackData EXCEPT !.ringBuffer.readCursor = @ + n]
            /\ UNCHANGED << heapVars, srcVars, loopVars, pc, result, error, log,
                            paState, stream, ghostVars >>

C17_CallbackFrame == [][C17_CallbackStep]_vars

\* A callback took all it asked for and unread frames are buffered behind it.
C17_Witness ==
    /\ InLoop
    /\ streamState = "active"
    /\ framesRead = options.framesPerBuffer
    /\ ring.readCursor >= framesRead
    /\ ring.writeCursor > ring.readCursor
    /\ result = 0

\* C18: once the readiness check has failed (select returned -1) the
\* streaming phase is over: the run is marked failed, the drain loop makes no
\* further read() call and no further ring write, and a finished run exits
\* with a non-zero status.
C18_AfterSelectFailure ==
    SelectFailed =>
        /\ ~ReadStep
        /\ callbackData'.ringBuffer.writeCursor = ring.writeCursor
        /\ sampleBuffer' = sampleBuffer

C18_SelectFailureEndsStreaming ==
    /\ [](SelectFailed => result # 0)
    /\ [][C18_AfterSelectFailure]_vars

\* C19: the step that starts a drain cycle hands "ring buffer starved!" to
\* the warning log exactly when writeAvailable() equals the capacity at that
\* moment, and besides taking the snapshot it changes nothing: result and
\* error, the ring buffer and its storage, the staging buffer and the
\* timeout clock stay as they are and the cycle goes on into the inner loop;
\* no other step of main() issues or withdraws the warning.
C19_CycleStartStep ==
    /\ (pc = "cycleStart" /\ pc' # pc) =>
          /\ warned' <=> (PaUtil_GetRingBufferWriteAvailable(ring) = ring.bufferSize)
          /\ pc' = "inner"
          /\ UNCHANGED << result, error, log, callbackData, heapVars, elapsed, byteIndex,
                          stdinOpen, exitCause, srcVars, paVars >>
    /\ warned' # warned => pc = "cycleStart"

C19_StarvedWarning == [][C19_CycleStartStep]_vars

\* A cycle that began with the ring emptied by the callbacks, and warned.
C19_Witness ==
    /\ pc = "inner"
    /\ warned
    /\ Len(played) > 0
    /\ PaUtil_GetRingBufferReadAvailable(ring) = 0
    /\ result = 0

\* The drain loop has ended because read() reported end of file.
LoopEndedByEof == exitCause = "closed" /\ srcState = "eof"

\* C20, as claimed: when the stream has been closed after the loop ended by
\* end of file, every frame written into the ring buffer has been consumed
\* by a callback.
C20_AllConsumedBeforeClose ==
    (LoopEndedByEof /\ stream = "closed") => ring.readCursor = ring.writeCursor

\* C20, amended: after the loop ended by end of file nothing more is written
\* to the ring; callbacks go on consuming the buffered frames in order, each
\* taking min(Q, readAvailable) of them, only while main() has not yet closed
\* the stream; main() does not wait for them, and from the close on the read
\* cursor and the frames played never change, so the frames still buffered
\* at the close are never consumed.
C20_DrainState ==
    LoopEndedByEof =>
        /\ pc \in {"classify"} \cup TeardownSteps
        /\ pc \in {"terminate", "freeRing", "freePipe", "done"} => stream = "closed"
        /\ Len(played) = ring.readCursor

C20_DrainStep ==
    LoopEndedByEof =>
        LET n == Min(options.framesPerBuffer, PaUtil_GetRingBufferReadAvailable(ring))
        IN  /\ callbackData'.ringBuffer.writeCursor = ring.writeCursor
            /\ sampleBuffer' = sampleBuffer
            /\ CallbackStep =>
                  /\ pc \in {"classify", "closeStream"}
                  /\ callbackData'.ringBuffer.readCursor = ring.readCursor + n
                  /\ played' = played \o
                        [i \in 1 .. n |-> sampleBuffer[PhysicalIndex(ring, ring.readCursor + i - 1)]]
            /\ pc \in {"terminate", "freeRing", "freePipe", "done"} =>
                  /\ callbackData'.ringBuffer.readCursor = ring.readCursor
                  /\ played' = played

C20_DrainUntilClose == []C20_DrainState /\ [][C20_DrainStep]_vars

\* The stream was closed after end of file while a frame read from the
\* source was still waiting in the ring buffer.
C20_Witness ==
    /\ LoopEndedByEof
    /\ pc = "done"
    /\ stream = "closed"
    /\ ring.readCursor > 0
    /\ ring.readCursor < srcPos \div frameSize

====
